---- MODULE Spec2Model ----
(***************************************************************************)
(* A model of git-pull-request.py: the branch naming functions, computed   *)
(* on character sequences as the regular expressions of the source compute *)
(* them, and the commands of the tool as a state machine over the primary  *)
(* directory, the work directory, the breadcrumb file and the remote pull  *)
(* request.                                                                *)
(***************************************************************************)
EXTENDS Integers, Sequences, FiniteSets, TLC

VARIABLES
    nm,         \* the naming functions' input and results (specification SpecNaming)
    config,     \* the options dictionary after load_options
    branch,     \* directory -> the branch checked out there (HEAD)
    session,    \* directory -> state of the merge/rebase in progress there
    branches,   \* the local branches (shared by both directories)
    breadcrumb, \* content of /tmp/git-pull-request-chdir
    remote,     \* the pull request on the hosting service: "open" or "closed"
    cwd,        \* directory the process of the last command ended in
    last        \* what the last command did

vars == <<nm, config, branch, session, branches, breadcrumb, remote, cwd, last>>

(***************************************************************************)
(* Strings are sequences of one-character strings.                         *)
(***************************************************************************)
Upper == {"A", "B", "C", "D", "E", "F", "G", "H", "I", "J", "K", "L", "M",
          "N", "O", "P", "Q", "R", "S", "T", "U", "V", "W", "X", "Y", "Z"}

Digit == {"0", "1", "2", "3", "4", "5", "6", "7", "8", "9"}

DigitChars == <<"0", "1", "2", "3", "4", "5", "6", "7", "8", "9">>

\* the literal 'pull-request-'
PR_PREFIX == <<"p", "u", "l", "l", "-", "r", "e", "q", "u", "e", "s", "t", "-">>

\* s[i:] with i counted from 1; empty when i is past the end (Python slicing)
From(s, i) == SubSeq(s, i, Len(s))

\* s[0:n]; shorter when s is shorter (Python slicing)
Slice(s, n) == SubSeq(s, 1, IF n <= Len(s) THEN n ELSE Len(s))

\* length of the longest run of characters of class C starting at s[i]
RECURSIVE Run(_, _, _)
Run(s, i, C) == IF i <= Len(s) /\ s[i] \in C THEN 1 + Run(s, i + 1, C) ELSE 0

\* '%s' % n for a non-negative integer n
RECURSIVE ToStr(_)
ToStr(n) == IF n < 10 THEN <<DigitChars[n + 1]>>
            ELSE ToStr(n \div 10) \o <<DigitChars[(n % 10) + 1]>>

DigitValue(c) == CHOOSE v \in 0..9 : DigitChars[v + 1] = c

\* int(s) for a string of decimal digits
RECURSIVE ParseInt(_)
ParseInt(s) == IF Len(s) = 0 THEN 0
               ELSE 10 * ParseInt(SubSeq(s, 1, Len(s) - 1)) + DigitValue(s[Len(s)])

StartsWith(s, p) == Len(s) >= Len(p) /\ SubSeq(s, 1, Len(p)) = p

\* re.search("^[A-Z]{3,}-\d+", ref): the matched text, or <<>> for no match
\* (a match is never empty)
IssueKeyAtStart_OneDigit(ref) ==
    LET n == Run(ref, 1, Upper)
    IN  IF n >= 3 /\ n + 2 <= Len(ref) /\ ref[n + 1] = "-" /\ ref[n + 2] \in Digit
        THEN SubSeq(ref, 1, n + 2)
        ELSE <<>>

IssueKeyAtStart(ref) ==
    LET n == Run(ref, 1, Upper)
        m == Run(ref, n + 2, Digit)
    IN  IF n >= 3 /\ n + 1 <= Len(ref) /\ ref[n + 1] = "-" /\ m >= 1
        THEN SubSeq(ref, 1, n + 1 + m)
        ELSE <<>>

\* [A-Z]{3,}-\d+ matched at position i of s: the matched text, or <<>>
IssueKeyAt(s, i) == IssueKeyAtStart(From(s, i))

\* re.search("[A-Z]{3,}-\d+", s): the leftmost match, or <<>>
IssueKeyAnywhere(s) ==
    LET hits == {i \in 1..Len(s) : IssueKeyAt(s, i) # <<>>}
    IN  IF hits = {} THEN <<>>
        ELSE IssueKeyAt(s, CHOOSE i \in hits : \A j \in hits : i <= j)

\* the regular expression build_branch_name uses on the head ref
BranchKeyMatch_Unanchored(ref) == IssueKeyAnywhere(ref)

BranchKeyMatch(ref) == IssueKeyAtStart(ref)

build_branch_name(pull_request) ==
    LET m == BranchKeyMatch(pull_request.ref)
        branch_name == PR_PREFIX \o ToStr(pull_request.number)
    IN  IF m # <<>> THEN branch_name \o <<"-">> \o m ELSE branch_name

\* build_pull_request_title: the first issue key anywhere in the branch name,
\* else the branch name
build_pull_request_title_Anchored(branch_name) ==
    IF IssueKeyAtStart(branch_name) # <<>> THEN IssueKeyAtStart(branch_name) ELSE branch_name

build_pull_request_title(branch_name) ==
    LET m == IssueKeyAnywhere(branch_name)
    IN  IF m # <<>> THEN m ELSE branch_name

\* re.search("^pull-request-(\d+)", branch_name): group 1, or <<>> for no match
PullRequestIDMatch_OneDigit(branch_name) ==
    IF StartsWith(branch_name, PR_PREFIX)
    THEN SubSeq(branch_name, Len(PR_PREFIX) + 1,
                Len(PR_PREFIX) + (IF Run(branch_name, Len(PR_PREFIX) + 1, Digit) > 0
                                  THEN 1 ELSE 0))
    ELSE <<>>

PullRequestIDMatch(branch_name) ==
    IF StartsWith(branch_name, PR_PREFIX)
    THEN SubSeq(branch_name, Len(PR_PREFIX) + 1,
                Len(PR_PREFIX) + Run(branch_name, Len(PR_PREFIX) + 1, Digit))
    ELSE <<>>

\* get_pull_request_ID: m.group(1) on no match is an AttributeError
get_pull_request_ID(branch_name) ==
    LET m == PullRequestIDMatch(branch_name)
    IN  IF m = <<>> THEN [err |-> "AttributeError", id |-> -1]
        ELSE [err |-> "none", id |-> ParseInt(m)]

\* branch_name[0:13] != 'pull-request-' of get_current_branch_name
HasPullRequestPrefix(branch_name) == Slice(branch_name, 13) = PR_PREFIX

(***************************************************************************)
(* The world of the commands: two directories, four local branches, one    *)
(* pull request on the hosting service.                                    *)
(***************************************************************************)
Dirs == {"primary", "work"}

MASTER == <<"m", "a", "s", "t", "e", "r">>

\* a branch whose name is no pull-request name
DEV == <<"d", "e", "v">>

\* 'pull-request-x': has the prefix, but no digits after it
BAD_BRANCH == PR_PREFIX \o <<"x">>

\* the pull request the hosting service holds
ThePullRequest == [number |-> 7, ref |-> <<"A", "B", "C", "-", "1">>]

\* 'pull-request-7-ABC-1', the branch fetch creates for it
PR_BRANCH == build_branch_name(ThePullRequest)

LocalBranches == {MASTER, DEV, BAD_BRANCH, PR_BRANCH}

\* target = None of command_update, pull_request_ID = None of command_open
NONE == <<>>

\* the arguments `update` is given: none, a pull request ID, branch names
Targets == {NONE, ToStr(ThePullRequest.number), DEV, BAD_BRANCH, PR_BRANCH}

\* the comment argument of close and merge: absent, empty, a text
NoComment == "None"

Comments == {NoComment, "", "text"}

\* an argument that can be None or a string (reviewer_name, pull_title)
Nothing == [given |-> FALSE, text |-> <<>>]

Str(s) == [given |-> TRUE, text |-> s]

\* x is None or x == ''
IsNoneOrEmpty(x) == ~x.given \/ x.text = <<>>

\* a reviewer and an upstream repository, and a title
REVIEWER == <<"r">>

UPSTREAM == <<"u">>

TITLE == <<"T">>

\* how a request to the hosting service can end (github_json_request)
ApiOutcomes == {"ok", "HTTPError", "URLError", "empty", "badjson"}

\* the errors raised as UserWarning, which the entry point catches
UserWarnings == {"InvalidBranchError", "VcsOperationError", "ConflictError",
                 "UnresolvedConflictError", "PullConflictError",
                 "InWorkDirectoryError", "TransportError", "EmptyResponseError",
                 "NoReviewerError"}

\* the exceptions of other classes, which nothing catches
Uncaught == {"AttributeError", "URLError", "ValueError", "UnboundLocalError"}

(***************************************************************************)
(* A running command is a record p: the process's directory, its view of   *)
(* the repositories, the breadcrumb and the remote, the external calls it  *)
(* has executed (log), the exception that ended it (err), the exit code of *)
(* the last git command (ret), and the states of the update state machine  *)
(* it went through (path).  options is the options dictionary load_options *)
(* left, inj is the call that is made to fail, kind the way a failing      *)
(* request fails.                                                          *)
(***************************************************************************)
Start(d, options, inj, kind) ==
    [dir |-> d, options |-> options, br |-> branch, sess |-> session, brs |-> branches,
     crumb |-> breadcrumb, rem |-> remote, log |-> <<>>, err |-> "none",
     ret |-> "unbound", firstFail |-> 0, path |-> <<"Idle">>, name |-> NONE,
     switched |-> FALSE, wrote |-> FALSE, inj |-> inj, kind |-> kind]

Running(p) == p.err = "none"

\* raise: the first exception ends the command
Raise(p, e) == IF Running(p) THEN [p EXCEPT !.err = e] ELSE p

\* the current branch of the process's directory (git rev-parse --abbrev-ref HEAD)
CurrentBranch(p) == p.br[p.dir]

\* an external call is executed: it is logged, and it fails when it is the
\* injected one or when `possible` (what git needs for it to succeed) is false
Exec(p, op, arg) == [p EXCEPT !.log = Append(@, [op |-> op, dir |-> p.dir, arg |-> arg])]

Fails(p, possible) == Len(p.log) + 1 = p.inj \/ ~possible

NoteFailure(p) == IF p.firstFail = 0 THEN [p EXCEPT !.firstFail = Len(p.log)] ELSE p

\* os.system(<git command>): sets ret; `done` is the repository after success,
\* `broken` the repository after failure
System(p, op, arg, possible, done, broken) ==
    IF ~Running(p) THEN p
    ELSE IF Fails(p, possible)
         THEN NoteFailure([Exec(broken, op, arg) EXCEPT !.ret = "nonzero"])
         ELSE [Exec(done, op, arg) EXCEPT !.ret = "zero"]

\* if ret != 0: raise UserWarning(...); reading a ret that was never assigned
\* is an UnboundLocalError
RaiseIfRet_Unbound(p, e) ==
    IF Running(p) /\ p.ret = "unbound" THEN Raise(p, "UnboundLocalError") ELSE p

RaiseIfRet(p, e) ==
    IF ~Running(p) THEN p
    ELSE IF p.ret = "unbound" THEN Raise(p, "UnboundLocalError")
    ELSE IF p.ret # "zero" THEN Raise(p, e)
    ELSE p

\* git checkout b: needs the branch and no merge/rebase in progress
git_checkout(p, b) ==
    System(p, "checkout", b, b \in p.brs /\ p.sess[p.dir] = "Idle",
           [p EXCEPT !.br[p.dir] = b], p)

\* git reset --hard && git clean -f: drops a merge in progress
git_reset_clean(p) ==
    System(p, "reset", NONE, TRUE, [p EXCEPT !.sess[p.dir] = "Idle"], p)

\* git merge master / git rebase master on the checked-out branch: a failure
\* leaves the merge/rebase in progress
git_update(p, method) ==
    System(p, method, MASTER, p.sess[p.dir] = "Idle",
           p, [p EXCEPT !.sess[p.dir] = "Conflicted"])

\* git commit / git rebase --continue: success ends the merge/rebase in progress;
\* rebase --continue needs a rebase in progress
git_finish(p, op) ==
    System(p, op, NONE, op = "commit" \/ p.sess[p.dir] = "Conflicted",
           [p EXCEPT !.sess[p.dir] = "Idle"], p)

\* git merge b (into master) and git pull; the unmerged files a failure leaves
\* are no update session and are not kept in the state
git_merge_branch(p, b) ==
    System(p, "merge-branch", b, b \in p.brs /\ p.sess[p.dir] = "Idle", p, p)

git_pull(p) ==
    System(p, "pull", NONE, p.sess[p.dir] = "Idle", p, p)

\* git branch -D b: needs the branch, not checked out here
git_branch_delete(p, b) ==
    System(p, "branch-D", b, b \in p.brs /\ CurrentBranch(p) # b,
           [p EXCEPT !.brs = @ \ {b}], p)

\* git fetch url ref:b creates or moves the local branch
git_fetch(p, b) ==
    System(p, "fetch", b, TRUE, [p EXCEPT !.brs = @ \cup {b}], p)

\* os.chdir(dir)
os_chdir(p, d) == IF Running(p) THEN [p EXCEPT !.dir = d, !.switched = TRUE] ELSE p

\* chdir(dir): writes the breadcrumb file
chdir_NoWrite(p, d) == p

chdir(p, d) == IF Running(p) THEN [p EXCEPT !.crumb = d, !.wrote = TRUE] ELSE p

\* get_git_base_path() and os.path.islink(.git/config): the work directory is
\* the one whose .git/config is a symbolic link
in_work_dir(p) == p.dir = "work"

\* the directory the link points to
get_original_dir_path == "primary"

\* github_json_request: HTTPError and an empty body raise UserWarning; any other
\* URLError, and json.loads of a body that is no JSON (ValueError), are not caught
\* here. `effect` is what the request does on the service once it got there.
github_json_request(p, call, effect) ==
    IF ~Running(p) THEN p
    ELSE LET q == Exec(p, call, NONE)
             outcome == IF Len(p.log) + 1 = p.inj THEN p.kind ELSE "ok"
             arrived == [q EXCEPT !.rem = effect]
         IN  CASE outcome = "ok" -> arrived
               [] outcome = "HTTPError" -> Raise(NoteFailure(q), "TransportError")
               [] outcome = "URLError" -> Raise(NoteFailure(q), "URLError")
               [] outcome = "empty" -> Raise(NoteFailure(arrived), "EmptyResponseError")
               [] outcome = "badjson" -> Raise(NoteFailure(arrived), "ValueError")

\* the state of the update state machine changes
Enter(p, state) == IF Running(p) THEN [p EXCEPT !.path = Append(@, state)] ELSE p

\* get_current_branch_name(ensure_pull_request): the check; the name it returns
\* is CurrentBranch(p)
get_current_branch_name_Unchecked(p, ensure_pull_request) == p

get_current_branch_name(p, ensure_pull_request) ==
    IF Running(p) /\ ensure_pull_request /\ ~HasPullRequestPrefix(CurrentBranch(p))
    THEN Raise(p, "InvalidBranchError")
    ELSE p

\* pull_request_ID = get_pull_request_ID(branch_name), as a step of a command
take_pull_request_ID(p, branch_name) ==
    IF Running(p) /\ get_pull_request_ID(branch_name).err # "none"
    THEN Raise(p, get_pull_request_ID(branch_name).err)
    ELSE p

\* get_pull_request: a read of the hosting service
get_pull_request(p) == github_json_request(p, "api-get", p.rem)

\* post_comment: the comment shows in the log of calls only
post_comment(p) == github_json_request(p, "api-comment", p.rem)

close_pull_request_CloseFirst(p, comment) ==
    LET text == IF comment = NoComment THEN p.options.close_default_comment ELSE comment
        p1 == github_json_request(p, "api-close", "closed")
    IN  IF text # NoComment /\ text # "" THEN post_comment(p1) ELSE p1

close_pull_request(p, comment) ==
    LET text == IF comment = NoComment THEN p.options.close_default_comment ELSE comment
        p1 == IF text # NoComment /\ text # "" THEN post_comment(p) ELSE p
    IN  IF ~Running(p1) THEN p1
        ELSE github_json_request(p1, "api-close", "closed")

\* the switch back of complete_update: os.chdir and chdir to the original directory
SwitchToOriginal_Stay(p) == p

SwitchToOriginal(p) ==
    chdir(os_chdir(p, get_original_dir_path), get_original_dir_path)

\* the original directory is brought to the branch: reset/clean when it is on
\* the branch already, checkout otherwise
SyncOriginal_Checkout(p, branch_name) ==
    IF ~Running(p) THEN p
    ELSE RaiseIfRet(git_checkout(p, branch_name), "VcsOperationError")

SyncOriginal(p, branch_name) ==
    IF ~Running(p) THEN p
    ELSE IF CurrentBranch(get_current_branch_name(p, FALSE)) = branch_name
         THEN RaiseIfRet(git_reset_clean(p), "VcsOperationError")
         ELSE RaiseIfRet(git_checkout(p, branch_name), "VcsOperationError")

complete_update(p, branch_name) ==
    IF ~Running(p) THEN p
    ELSE IF in_work_dir(p)
    THEN LET p1 == RaiseIfRet(git_checkout(p, MASTER), "VcsOperationError")
             p2 == SwitchToOriginal(p1)
             p3 == SyncOriginal(p2, branch_name)
         IN  Enter(p3, "Completed")
    ELSE Enter(p, "Completed")

\* the first statement of update_branch
WorkDirGuard_Absent(p) == p

WorkDirGuard(p) ==
    IF Running(p) /\ in_work_dir(p) THEN Raise(p, "InWorkDirectoryError") ELSE p

\* if options['work-dir']: of update_branch
options_work_dir_WhenIdle(p) == p.options.work_dir /\ p.sess["work"] = "Idle"

options_work_dir(p) == p.options.work_dir

update_branch(p, branch_name) ==
    LET p0 == IF Running(p) THEN [p EXCEPT !.name = branch_name] ELSE p
        p1 == Enter(WorkDirGuard(p0), "Updating")
        p2 == IF options_work_dir(p)
              THEN RaiseIfRet(git_reset_clean(os_chdir(p1, "work")), "VcsOperationError")
              ELSE p1
        p3 == RaiseIfRet(git_checkout(p2, branch_name), "VcsOperationError")
        p4 == IF p.options.update_method \in {"merge", "rebase"}
              THEN git_update(p3, p.options.update_method)
              ELSE p3
        p5 == IF Running(p4) /\ p4.ret # "zero"
              THEN Raise(Enter(IF options_work_dir(p) THEN chdir(p4, "work") ELSE p4,
                               "Conflicted"),
                         "ConflictError")
              ELSE p4
    IN  complete_update(p5, branch_name)

\* if ret != 0: raise of continue_update
UnresolvedCheck_Absent(p) == p

UnresolvedCheck(p) == RaiseIfRet(p, "UnresolvedConflictError")

continue_update(p) ==
    LET p0 == IF p.sess[p.dir] = "Conflicted" THEN [p EXCEPT !.path = <<"Conflicted">>] ELSE p
        p1 == IF p.options.update_method = "merge" THEN git_finish(p0, "commit")
              ELSE IF p.options.update_method = "rebase" THEN git_finish(p0, "rebase-continue")
              ELSE p0
        p2 == UnresolvedCheck(p1)
        p3 == Enter(p2, "Updating")
        p4 == get_current_branch_name(p3, TRUE)
        p5 == IF Running(p4) THEN [p4 EXCEPT !.name = CurrentBranch(p4)] ELSE p4
    IN  complete_update(p5, CurrentBranch(p4))

\* int(target) succeeds on a string of digits
IsInt(target) == Len(target) > 0 /\ Run(target, 1, Digit) = Len(target)

\* command_update up to the call of update_branch: the branch name, and the
\* process.  A ValueError of the try block (int(target), and also json.loads in
\* get_pull_request) is caught and makes the target the branch name.
UpdateResolve(p, target) ==
    IF target = NONE THEN get_current_branch_name(p, TRUE)
    ELSE IF IsInt(target)
    THEN LET q == get_pull_request(p)
         IN  IF q.err = "ValueError" THEN [q EXCEPT !.err = "none"] ELSE q
    ELSE p

UpdateBranchName(p, target) ==
    IF target = NONE THEN CurrentBranch(p)
    ELSE IF IsInt(target)
    THEN IF get_pull_request(p).err = "ValueError" THEN target
         ELSE build_branch_name([ThePullRequest EXCEPT !.number = ParseInt(target)])
    ELSE target

command_update(p, target) ==
    update_branch(UpdateResolve(p, target), UpdateBranchName(p, target))

command_continue_update(p) == continue_update(p)

command_merge(p, comment) ==
    LET p1 == get_current_branch_name(p, TRUE)
        branch_name == CurrentBranch(p)
        p2 == take_pull_request_ID(p1, branch_name)
        p3 == RaiseIfRet(git_checkout(p2, MASTER), "VcsOperationError")
        p4 == RaiseIfRet(git_merge_branch(p3, branch_name), "VcsOperationError")
        p5 == RaiseIfRet(git_branch_delete(p4, branch_name), "VcsOperationError")
    IN  IF Running(p5) /\ p.options.merge_auto_close
        THEN close_pull_request(p5, comment)
        ELSE p5

command_close(p, comment) ==
    LET p1 == get_current_branch_name(p, TRUE)
        branch_name == CurrentBranch(p)
        p2 == take_pull_request_ID(p1, branch_name)
        p3 == get_pull_request(p2)
        p4 == IF Running(p3) THEN close_pull_request(p3, comment) ELSE p3
        p5 == RaiseIfRet(git_checkout(p4, MASTER), "VcsOperationError")
    IN  RaiseIfRet(git_branch_delete(p5, branch_name), "VcsOperationError")

command_pull(p) ==
    LET p1 == get_current_branch_name(p, TRUE)
        p2 == take_pull_request_ID(p1, CurrentBranch(p))
        p3 == get_pull_request(p2)
    IN  RaiseIfRet(git_pull(p3), "PullConflictError")

\* open_URL: os.system('open ...'), its exit code is not read
open_URL(p) == IF Running(p) THEN Exec(p, "open", NONE) ELSE p

command_open(p, pull_request_ID) ==
    LET p1 == IF pull_request_ID = NONE
              THEN take_pull_request_ID(get_current_branch_name(p, TRUE), CurrentBranch(p))
              ELSE p
    IN  open_URL(get_pull_request(p1))

fetch_pull_request(p) ==
    RaiseIfRet(git_fetch(p, build_branch_name(ThePullRequest)), "VcsOperationError")

\* elif options['fetch-auto-checkout']: of command_fetch
fetch_auto_checkout_Always(p) == TRUE

fetch_auto_checkout(p) == p.options.fetch_auto_checkout

command_fetch(p, auto_update) ==
    LET p1 == fetch_pull_request(get_pull_request(p))
        branch_name == build_branch_name(ThePullRequest)
    IN  IF auto_update THEN update_branch(p1, branch_name)
        ELSE IF fetch_auto_checkout(p)
        THEN RaiseIfRet(git_checkout(p1, branch_name), "VcsOperationError")
        ELSE p1

\* git push origin branch_name: the branches of origin are not kept in the state
git_push(p, b) == System(p, "push", b, TRUE, p, p)

\* the request that creates the pull request; its title shows in the log
create_pull_request(p, pull_title) ==
    IF ~Running(p) THEN p
    ELSE [github_json_request(p, "api-create", p.rem) EXCEPT
              !.log[Len(p.log) + 1].arg = pull_title]

\* main: the reviewer of option -u/--reviewer, else `git config github.reviewer`
main_reviewer_name(option, configured) ==
    IF IsNoneOrEmpty(option) THEN Str(configured) ELSE option

\* the second check of the reviewer in command_submit
NoReviewerCheck_Absent(p, reviewer_name) == p

NoReviewerCheck(p, reviewer_name) ==
    IF IsNoneOrEmpty(reviewer_name) THEN Raise(p, "NoReviewerError") ELSE p

\* upstream is what get_repo_name_for_remote('upstream') returns
command_submit(p, reviewer_name, upstream, pull_title) ==
    LET p0 == get_current_branch_name(p, FALSE)
        branch_name == CurrentBranch(p)
        reviewer == IF IsNoneOrEmpty(reviewer_name) THEN upstream ELSE reviewer_name
        p1 == NoReviewerCheck(p0, reviewer)
        p2 == RaiseIfRet(git_push(p1, branch_name), "VcsOperationError")
        title == IF IsNoneOrEmpty(pull_title) THEN build_pull_request_title(branch_name)
                 ELSE pull_title.text
        p3 == create_pull_request(p2, title)
    IN  IF Running(p3) /\ p.options.submit_open_github THEN open_URL(p3) ELSE p3

(***************************************************************************)
(* The entry point and the commands as actions.  One action is one run of  *)
(* the tool: a process started in directory d runs the command to its end  *)
(* or to its first exception, and `last` holds what it did until it exits. *)
(***************************************************************************)
\* __main__: a UserWarning is caught and printed, and the script ends normally;
\* any other exception ends the interpreter with status 1
ExitStatus(err) == IF err \in Uncaught THEN 1 ELSE 0

\* the options dictionary: its defaults, and what load_options can make of
\* `git config`.  work-dir and update-method stay as configured over a run of
\* commands; the others are read anew by every command.
DefaultOptions ==
    [work_dir |-> FALSE, update_method |-> "merge", merge_auto_close |-> TRUE,
     close_default_comment |-> NoComment, fetch_auto_checkout |-> FALSE,
     submit_open_github |-> TRUE]

Options(auto_close, default_comment, auto_checkout) ==
    [work_dir |-> config.work_dir, update_method |-> config.update_method,
     merge_auto_close |-> auto_close, close_default_comment |-> default_comment,
     fetch_auto_checkout |-> auto_checkout,
     submit_open_github |-> DefaultOptions.submit_open_github]

Configured == Options(DefaultOptions.merge_auto_close,
                      DefaultOptions.close_default_comment,
                      DefaultOptions.fetch_auto_checkout)

\* the arguments of submit, for the commands that are not submit
NoSubmit == [option |-> Nothing, configured |-> <<>>, upstream |-> Nothing,
             pull_title |-> Nothing]

NoCommand ==
    [cmd |-> "none", dir0 |-> "primary", options |-> DefaultOptions,
     target |-> NONE, comment |-> NoComment, submit |-> NoSubmit,
     flag |-> FALSE, br0 |-> MASTER, sess0 |-> "Idle", name |-> NONE,
     err |-> "none", path |-> <<"Idle">>, log |-> <<>>, firstFail |-> 0,
     switched |-> FALSE, wrote |-> FALSE, caught |-> FALSE, exit |-> 0]

EndsWith(p, cmd, d, target, comment, flag, submit) ==
    /\ last.cmd = "none"
    /\ branch' = p.br
    /\ session' = p.sess
    /\ branches' = p.brs
    /\ breadcrumb' = p.crumb
    /\ remote' = p.rem
    /\ cwd' = p.dir
    /\ last' = [cmd |-> cmd, dir0 |-> d, options |-> p.options,
                target |-> target, comment |-> comment, submit |-> submit,
                flag |-> flag, br0 |-> branch[d], sess0 |-> session[d],
                name |-> p.name, err |-> p.err, path |-> p.path, log |-> p.log,
                firstFail |-> p.firstFail, switched |-> p.switched,
                wrote |-> p.wrote, caught |-> p.err \in UserWarnings,
                exit |-> ExitStatus(p.err)]
    /\ UNCHANGED <<nm, config>>

Ends(p, cmd, d, target, comment, flag) ==
    EndsWith(p, cmd, d, target, comment, flag, NoSubmit)

\* the process has ended and the shell shows its prompt again
Exit ==
    /\ last.cmd # "none"
    /\ last' = NoCommand
    /\ UNCHANGED <<nm, config, branch, session, branches, breadcrumb, remote, cwd>>

\* the directories a command can be started in: the primary directory and a
\* directory made of it by git-new-workdir, which is there whether or not the
\* work-dir option names it
StartDirs == Dirs

ApiFailures == ApiOutcomes \ {"ok"}

\* the faults a command of at most n external calls can meet: none, or its i-th
\* call fails; the ways a request can fail are told apart at the positions
\* `requests` where the command can make one
Faults(n, requests) ==
    {[inj |-> 0, kind |-> "HTTPError"]}
    \cup {[inj |-> i, kind |-> "HTTPError"] : i \in 1..n}
    \cup {[inj |-> i, kind |-> k] : i \in requests, k \in ApiFailures}

Update ==
    \E d \in StartDirs, target \in Targets, f \in Faults(6, {1}) :
        Ends(command_update(Start(d, Configured, f.inj, f.kind), target),
             "update", d, target, NoComment, FALSE)

ContinueUpdate ==
    \E d \in StartDirs, f \in Faults(3, {}) :
        Ends(command_continue_update(Start(d, Configured, f.inj, f.kind)),
             "continue-update", d, NONE, NoComment, FALSE)

Merge ==
    \E d \in StartDirs, comment \in Comments, auto_close \in BOOLEAN,
       f \in Faults(5, {4, 5}) :
        Ends(command_merge(Start(d, Options(auto_close, NoComment, FALSE), f.inj, f.kind),
                           comment),
             "merge", d, NONE, comment, FALSE)

Close ==
    \E d \in StartDirs, comment \in Comments, default_comment \in {NoComment, "text"},
       f \in Faults(5, {1, 2, 3}) :
        Ends(command_close(Start(d, Options(TRUE, default_comment, FALSE), f.inj, f.kind),
                           comment),
             "close", d, NONE, comment, FALSE)

Pull ==
    \E d \in StartDirs, f \in Faults(2, {1}) :
        Ends(command_pull(Start(d, Configured, f.inj, f.kind)),
             "pull", d, NONE, NoComment, FALSE)

Open ==
    \E d \in StartDirs, id \in {NONE, ToStr(ThePullRequest.number)}, f \in Faults(2, {1}) :
        Ends(command_open(Start(d, Configured, f.inj, f.kind), id),
             "open", d, id, NoComment, FALSE)

Fetch ==
    \E d \in StartDirs, auto_update \in BOOLEAN, auto_checkout \in BOOLEAN,
       f \in Faults(7, {1}) :
        Ends(command_fetch(Start(d, Options(TRUE, NoComment, auto_checkout), f.inj, f.kind),
                           auto_update),
             "fetch", d, ToStr(ThePullRequest.number), NoComment, auto_update)

Submit ==
    \E d \in StartDirs, option \in {Nothing, Str(<<>>), Str(REVIEWER)},
       configured \in {<<>>, REVIEWER}, upstream \in {Nothing, Str(UPSTREAM)},
       pull_title \in {Nothing, Str(<<>>), Str(TITLE)}, open_github \in BOOLEAN,
       f \in Faults(2, {}) :
        EndsWith(command_submit(Start(d, [Configured EXCEPT !.submit_open_github = open_github],
                                      f.inj, f.kind),
                                main_reviewer_name(option, configured), upstream, pull_title),
                 "submit", d, NONE, NoComment, FALSE,
                 [option |-> option, configured |-> configured, upstream |-> upstream,
                  pull_title |-> pull_title])

(***************************************************************************)
(* The naming functions on their own: specification SpecNaming draws a     *)
(* pull request or a branch name from bounded sets and applies the         *)
(* functions to it.                                                        *)
(***************************************************************************)
\* longest generated head ref, longest generated tail of a branch name
MaxRefLen == 6

MaxTailLen == 3

Alphabet == {"A", "-", "1", "x"}

Strings(n) == UNION {[1..k -> Alphabet] : k \in 0..n}

\* 'feature/ABC-123-foo', 'ABC-123-foo' and 'misc-fix'
FEATURE_REF == <<"f", "e", "a", "t", "u", "r", "e", "/", "A", "B", "C", "-", "1", "2", "3",
                 "-", "f", "o", "o">>

KEY_REF == <<"A", "B", "C", "-", "1", "2", "3", "-", "f", "o", "o">>

MISC_REF == <<"m", "i", "s", "c", "-", "f", "i", "x">>

HeadRefs == Strings(MaxRefLen) \cup {FEATURE_REF, KEY_REF, MISC_REF}

Numbers == {0, 7, 42, 100}

PullRequests == [number : Numbers, ref : HeadRefs]

\* branch names as the user's repository can hold them
BranchNames ==
    Strings(MaxTailLen) \cup {PR_PREFIX \o t : t \in Strings(MaxTailLen)}
    \cup {MASTER, DEV, Slice(PR_PREFIX, 12)}

NoResult == [err |-> "none", id |-> -1]

NamingOff == [phase |-> "off", pr |-> ThePullRequest, name |-> NONE, res |-> NoResult]

InitNaming ==
    /\ nm \in {[phase |-> "pr", pr |-> pr, name |-> NONE, res |-> NoResult] :
                  pr \in PullRequests}
              \cup {[phase |-> "name", pr |-> ThePullRequest, name |-> b, res |-> NoResult] :
                       b \in BranchNames}
    /\ config = [work_dir |-> DefaultOptions.work_dir,
                 update_method |-> DefaultOptions.update_method]
    /\ branch = [d \in Dirs |-> MASTER]
    /\ session = [d \in Dirs |-> "Idle"]
    /\ branches = LocalBranches
    /\ breadcrumb = "none"
    /\ remote = "open"
    /\ cwd = "primary"
    /\ last = NoCommand

Unused == UNCHANGED <<config, branch, session, branches, breadcrumb, remote, cwd, last>>

\* branch_name = build_branch_name(pull_request)
BuildBranchName ==
    /\ nm.phase = "pr"
    /\ nm' = [nm EXCEPT !.phase = "built", !.name = build_branch_name(nm.pr)]
    /\ Unused

\* get_pull_request_ID on the name just built, or on the name drawn
ExtractPullRequestID ==
    /\ nm.phase \in {"built", "name"}
    /\ nm' = [nm EXCEPT !.phase = IF nm.phase = "built" THEN "recovered" ELSE "parsed",
                        !.res = get_pull_request_ID(nm.name)]
    /\ Unused

\* branch_name = get_current_branch_name(); get_pull_request_ID(branch_name), as
\* close, merge, pull and open do on the current branch
CurrentPullRequestID ==
    /\ nm.phase = "name"
    /\ nm' = [nm EXCEPT !.phase = "current",
                        !.res = IF ~HasPullRequestPrefix(nm.name)
                                THEN [err |-> "InvalidBranchError", id |-> -1]
                                ELSE get_pull_request_ID(nm.name)]
    /\ Unused

NextNaming ==
    \/ BuildBranchName
    \/ ExtractPullRequestID
    \/ CurrentPullRequestID

SpecNaming == InitNaming /\ [][NextNaming]_vars

(***************************************************************************)
(* submit on its own: it changes nothing the other commands read, so        *)
(* specification SpecSubmit starts it on every branch name of a bounded set.*)
(***************************************************************************)
\* longest generated name of the branch submit is started on
MaxBranchLen == 5

TitleAlphabet == {"A", "-", "1"}

\* 'pull-request-7', 'ABC-1-DEF-2', and names with a key and one more character
PLAIN_BRANCH == PR_PREFIX \o <<"7">>

LongerKeys == {<<"A", "A", "A", "A", "-", "1">>, <<"A", "A", "A", "-", "1", "1">>,
               <<"-", "A", "A", "A", "-", "1">>, <<"A", "A", "A", "-", "1", "A">>,
               <<"x", "A", "A", "A", "-", "1">>, <<"A", "A", "x", "A", "-", "1">>}

TWO_KEYS == <<"A", "B", "C", "-", "1", "-", "D", "E", "F", "-", "2">>

SubmitBranches ==
    UNION {[1..k -> TitleAlphabet] : k \in 1..MaxBranchLen}
    \cup {MASTER, PLAIN_BRANCH, PR_BRANCH, FEATURE_REF, MISC_REF, TWO_KEYS}
    \cup LongerKeys

InitSubmit ==
    /\ nm = NamingOff
    /\ config = [work_dir |-> FALSE, update_method |-> DefaultOptions.update_method]
    /\ \E b \in SubmitBranches :
           /\ branch = [d \in Dirs |-> IF d = "primary" THEN b ELSE MASTER]
           /\ branches = LocalBranches \cup {b}
    /\ session = [d \in Dirs |-> "Idle"]
    /\ breadcrumb = "none"
    /\ remote = "open"
    /\ cwd = "primary"
    /\ last = NoCommand

NextSubmit ==
    \/ Submit
    \/ Exit

SpecSubmit == InitSubmit /\ [][NextSubmit]_vars

\* the repositories before the first command: the work directory holds master
InitRepositories ==
    /\ branch \in {b \in [Dirs -> LocalBranches] : b["work"] = MASTER}
    /\ session = [d \in Dirs |-> "Idle"]
    /\ branches = LocalBranches
    /\ breadcrumb = "none"
    /\ remote = "open"
    /\ cwd = "primary"
    /\ last = NoCommand

Init ==
    /\ nm = NamingOff
    /\ config \in [work_dir : BOOLEAN, update_method : {"merge", "rebase", "other"}]
    /\ InitRepositories

Next ==
    \/ Update
    \/ ContinueUpdate
    \/ Merge
    \/ Close
    \/ Pull
    \/ Open
    \/ Fetch
    \/ Exit

Spec == Init /\ [][Next]_vars

(***************************************************************************)
(* What the claims speak of.                                               *)
(***************************************************************************)
\* k is an issue key: three or more capitals, a dash, one or more digits
IsIssueKey(k) ==
    \E n \in 3..Len(k) :
        /\ \A i \in 1..n : k[i] \in Upper
        /\ n + 2 <= Len(k)
        /\ k[n + 1] = "-"
        /\ \A i \in (n + 2)..Len(k) : k[i] \in Digit

\* s holds an issue key somewhere
HoldsIssueKey(s) == \E i \in 1..Len(s), j \in 1..Len(s) : i <= j /\ IsIssueKey(SubSeq(s, i, j))

\* s starts with 'pull-request-' and a digit
IsPullRequestName(s) ==
    /\ Len(s) > Len(PR_PREFIX)
    /\ \A i \in 1..Len(PR_PREFIX) : s[i] = PR_PREFIX[i]
    /\ s[Len(PR_PREFIX) + 1] \in Digit

End(path) == path[Len(path)]

\* the external call of the last command that failed first
FailedCall(l) == IF l.firstFail = 0 THEN "none" ELSE l.log[l.firstFail].op

Ops(l) == {l.log[i].op : i \in 1..Len(l.log)}

MergeOrRebase == {"merge", "rebase"}

\* the last command worked on the current branch as on a pull-request branch
OnCurrentBranch(l) ==
    \/ l.cmd \in {"continue-update", "pull", "merge", "close"}
    \/ l.cmd \in {"update", "open"} /\ l.target = NONE

\* C1: whenever the merge/rebase of update reports conflicts, update ends in
\* Conflicted; and a continue-update on a Conflicted session whose commit or
\* rebase --continue succeeds, and all of whose other git commands succeed,
\* ends in Completed, whatever target the update was given.
C1_ConflictThenContinueCompletes ==
    /\ (last.cmd = "update" /\ FailedCall(last) \in MergeOrRebase
            => End(last.path) = "Conflicted" /\ last.err = "ConflictError")
    /\ ((/\ last.cmd = "continue-update"
         /\ last.sess0 = "Conflicted"
         /\ last.options.update_method \in MergeOrRebase
         /\ last.log # <<>>
         /\ FailedCall(last) = "none")
            => End(last.path) = "Completed")

\* C2: at the end of a command in which the process switched directory, the
\* breadcrumb holds the directory the process is in.
C2_BreadcrumbFollowsDirectory ==
    last.cmd # "none" /\ last.switched => breadcrumb = cwd

\* C3 as amended: build_branch_name of number 42 and head ref
\* 'feature/ABC-123-foo' is 'pull-request-42'; of 'ABC-123-foo' it is
\* 'pull-request-42-ABC-123'; whenever something is appended to
\* pull-request-<number>, it is a dash and an issue key the head ref starts with.
C3_KeyAppendedOnlyFromStart ==
    nm.phase = "built" =>
        LET base == PR_PREFIX \o ToStr(nm.pr.number)
        IN  /\ nm.pr.number = 42 /\ nm.pr.ref = FEATURE_REF => nm.name = PR_PREFIX \o <<"4", "2">>
            /\ nm.pr.number = 42 /\ nm.pr.ref = KEY_REF
                   => nm.name = PR_PREFIX \o <<"4", "2", "-", "A", "B", "C", "-", "1", "2", "3">>
            /\ nm.name # base =>
                   \E n \in 1..Len(nm.pr.ref) :
                       /\ IsIssueKey(SubSeq(nm.pr.ref, 1, n))
                       /\ nm.name = base \o <<"-">> \o SubSeq(nm.pr.ref, 1, n)

C3_Witness ==
    /\ nm.phase = "built"
    /\ nm.pr = [number |-> 42, ref |-> FEATURE_REF]
    /\ nm.name = PR_PREFIX \o <<"4", "2">>

\* C3 as stated: build_branch_name of number 42 and head ref
\* 'feature/ABC-123-foo' is 'pull-request-42-ABC-123', and an issue key anywhere
\* in the head ref is appended.
C3_Original ==
    nm.phase = "built" =>
        /\ nm.pr.number = 42 /\ nm.pr.ref = FEATURE_REF
               => nm.name = PR_PREFIX \o <<"4", "2", "-", "A", "B", "C", "-", "1", "2", "3">>
        /\ HoldsIssueKey(nm.pr.ref) => nm.name # PR_PREFIX \o ToStr(nm.pr.number)

\* C4: on the current branch, get_pull_request_ID fails with InvalidBranchError
\* on every name that does not start with pull-request-<digits>, those that
\* pass the prefix check of get_current_branch_name included.
C4_InvalidBranchError ==
    nm.phase = "current" /\ ~IsPullRequestName(nm.name)
        => nm.res.err = "InvalidBranchError"

\* C5: a continue-update whose commit or rebase --continue fails raises
\* UnresolvedConflictError and changes nothing: the sessions, the branches of
\* both directories, the breadcrumb and the remote stay, and the process ends
\* in the directory it started in.
C5_FailedContinueChangesNothing ==
    [][(/\ last'.cmd = "continue-update"
        /\ FailedCall(last') \in {"commit", "rebase-continue"})
           => /\ last'.err = "UnresolvedConflictError"
              /\ Len(last'.log) = 1
              /\ session' = session
              /\ branch' = branch
              /\ branches' = branches
              /\ breadcrumb' = breadcrumb
              /\ remote' = remote
              /\ cwd' = last'.dir0]_vars

C5_Witness ==
    /\ last.cmd = "continue-update"
    /\ last.sess0 = "Conflicted"
    /\ last.err = "UnresolvedConflictError"
    /\ session[last.dir0] = "Conflicted"

\* C6: an update by merge or rebase that leaves Idle and none of whose external
\* calls fails goes Idle, Updating, Completed, has run the merge or rebase, and
\* ends in the primary directory with the target branch checked out there.
C6_CleanUpdateCompletes ==
    (/\ last.cmd = "update"
     /\ last.options.update_method \in MergeOrRebase
     /\ Len(last.path) > 1
     /\ FailedCall(last) = "none")
        => /\ last.path = <<"Idle", "Updating", "Completed">>
           /\ last.err = "none"
           /\ last.options.update_method \in Ops(last)
           /\ cwd = "primary"
           /\ branch["primary"] = last.name

C6_Witness ==
    /\ last.cmd = "update"
    /\ last.options.work_dir
    /\ last.options.update_method = "rebase"
    /\ last.firstFail = 0
    /\ End(last.path) = "Completed"
    /\ last.br0 # last.name

\* C7: a command that works on the current branch makes no git call and no
\* request when that branch does not match pull-request-<digits>.
C7_OtherBranchesUntouched ==
    OnCurrentBranch(last) /\ ~IsPullRequestName(last.br0) => last.log = <<>>

\* C8: merge and close started on master raise InvalidBranchError before any
\* external call, and leave the repositories and the remote as they were.
C8_MergeCloseOnMaster ==
    [][(last'.cmd \in {"merge", "close"} /\ last'.br0 = MASTER)
           => /\ last'.err = "InvalidBranchError"
              /\ last'.log = <<>>
              /\ UNCHANGED <<branch, session, branches, breadcrumb, remote>>]_vars

C8_Witness ==
    /\ last.cmd = "close"
    /\ last.br0 = MASTER
    /\ last.err = "InvalidBranchError"
    /\ remote = "open"

UpdateSteps == {"reset", "checkout", "merge", "rebase"}

\* the error command_update raises before it calls update_branch, if any
TargetError(l) ==
    IF l.target = NONE
    THEN IF HasPullRequestPrefix(l.br0) THEN {} ELSE {"InvalidBranchError"}
    ELSE IF IsInt(l.target) /\ FailedCall(l) = "api-get"
    THEN {"TransportError", "EmptyResponseError", "URLError"}
    ELSE {}

\* C10 as amended: an update started in the work directory fails before any
\* directory switch, reset/clean, checkout, merge or rebase and leaves both
\* directories, their sessions and the breadcrumb as they were; the error is
\* InWorkDirectoryError unless the target could not be resolved (omitted on a
\* branch without the prefix: InvalidBranchError; a failed lookup: its error).
C10_UpdateFromWorkDirectory ==
    [][(last'.cmd = "update" /\ last'.dir0 = "work")
           => /\ last'.err \in {"InWorkDirectoryError"} \cup TargetError(last')
              /\ last'.err = "InWorkDirectoryError" \/ last'.name = NONE
              /\ Ops(last') \cap UpdateSteps = {}
              /\ ~last'.switched
              /\ cwd' = "work"
              /\ UNCHANGED <<branch, session, branches, breadcrumb>>]_vars

C10_Witness ==
    /\ last.cmd = "update"
    /\ last.dir0 = "work"
    /\ last.sess0 = "Conflicted"
    /\ last.err = "InWorkDirectoryError"
    /\ session["work"] = "Conflicted"

\* C10 as stated: every update started in the work directory fails with
\* InWorkDirectoryError.
C10_Original ==
    last.cmd = "update" /\ last.dir0 = "work" => last.err = "InWorkDirectoryError"
\* C11: at most one directory holds a merge/rebase in progress, after any run
\* of commands started in either directory.
C11_AtMostOneSession ==
    Cardinality({d \in Dirs : session[d] # "Idle"}) <= 1

\* a continue-update started in the primary directory while the work
\* directory holds the session in progress
C11_Witness ==
    /\ last.cmd = "continue-update"
    /\ last.dir0 = "primary"
    /\ last.log # <<>>
    /\ session["work"] = "Conflicted"
    /\ session["primary"] = "Idle"
\* the arguments of the last submit leave it without a reviewer: no option,
\* no configured reviewer, no upstream remote
NoReviewer(l) ==
    /\ ~l.submit.option.given \/ l.submit.option.text = <<>>
    /\ l.submit.configured = <<>>
    /\ ~l.submit.upstream.given

\* C12: a submit without explicit reviewer, configured reviewer and upstream
\* remote raises NoReviewerError and has made neither the push nor the request
\* that creates the pull request; a submit with any of them does not raise it.
C12_NoReviewerBeforePush ==
    last.cmd = "submit" =>
        /\ NoReviewer(last) => last.err = "NoReviewerError" /\ last.log = <<>>
        /\ ~NoReviewer(last) => last.err # "NoReviewerError"

C12_Witness ==
    /\ last.cmd = "submit"
    /\ last.submit.option = Str(<<>>)
    /\ NoReviewer(last)
    /\ last.err = "NoReviewerError"
\* t is the leftmost and longest issue key in b
IsFirstIssueKey(t, b) ==
    \E i \in 1..Len(b), j \in 1..Len(b) :
        /\ i <= j
        /\ t = SubSeq(b, i, j)
        /\ IsIssueKey(t)
        /\ j = Len(b) \/ b[j + 1] \notin Digit
        /\ \A h \in 1..(i - 1), k \in 1..Len(b) : ~(h <= k /\ IsIssueKey(SubSeq(b, h, k)))

\* the title of the request of the last submit
SubmittedTitles(l) == {l.log[i].arg : i \in {k \in 1..Len(l.log) : l.log[k].op = "api-create"}}

\* C15: the title submit sends is the title supplied when there is one that is
\* not empty; else it is the first issue key of the branch name when the name
\* holds one anywhere, and the branch name itself when it holds none
\* ('pull-request-7' gives 'pull-request-7').
C15_DefaultTitle ==
    last.cmd = "submit" =>
        \A t \in SubmittedTitles(last) :
            IF last.submit.pull_title.given /\ last.submit.pull_title.text # <<>>
            THEN t = last.submit.pull_title.text
            ELSE /\ HoldsIssueKey(last.br0) => IsFirstIssueKey(t, last.br0)
                 /\ ~HoldsIssueKey(last.br0) => t = last.br0
                 /\ last.br0 = PLAIN_BRANCH => t = PR_PREFIX \o <<"7">>

\* submit without a title on 'pull-request-7-ABC-1' sends the title 'ABC-1'
C15_Witness ==
    /\ last.cmd = "submit"
    /\ last.br0 = PR_BRANCH
    /\ ~last.submit.pull_title.given
    /\ SubmittedTitles(last) = {<<"A", "B", "C", "-", "1">>}
\* the lengths n for which the first n characters of ref are an issue key
KeyLengths(ref) == {n \in 1..Len(ref) : IsIssueKey(SubSeq(ref, 1, n))}

\* C13: when the head ref starts with an issue key, build_branch_name gives
\* pull-request-<number>-<key>, the key being all of the capitals and all of
\* the digits the ref starts with; for every other head ref it gives exactly
\* pull-request-<number>.
C13_KeyOfHeadRef ==
    nm.phase = "built" =>
        LET base == PR_PREFIX \o ToStr(nm.pr.number)
            lens == KeyLengths(nm.pr.ref)
        IN  IF lens = {} THEN nm.name = base
            ELSE \E n \in lens :
                     /\ \A k \in lens : k <= n
                     /\ nm.name = base \o <<"-">> \o SubSeq(nm.pr.ref, 1, n)

\* 'ABC-123-foo' of number 42 gives 'pull-request-42-ABC-123'
C13_Witness ==
    /\ nm.phase = "built"
    /\ nm.pr = [number |-> 42, ref |-> KEY_REF]
    /\ nm.name = PR_PREFIX \o <<"4", "2", "-", "A", "B", "C", "-", "1", "2", "3">>

\* C14: get_pull_request_ID of the name build_branch_name gives is the number
\* of the pull request, for every number and head ref.
C14_RoundTrip ==
    nm.phase = "recovered" => nm.res = [err |-> "none", id |-> nm.pr.number]

\* number 42 with a head ref that starts with the key 'A..-1..': the digits of
\* the key follow the number in the name
C14_Witness ==
    /\ nm.phase = "recovered"
    /\ nm.pr.number = 42
    /\ KeyLengths(nm.pr.ref) # {}
    /\ nm.name # PR_PREFIX \o <<"4", "2">>
    /\ nm.res.id = 42
\* the commands that run update_branch
RunsUpdate(l) == l.cmd = "update" \/ (l.cmd = "fetch" /\ l.flag)

\* the merge of master or the rebase onto master was run and returned zero
UpdateApplied(l) ==
    \E i \in 1..Len(l.log) : l.log[i].op \in MergeOrRebase /\ l.firstFail # i

\* C16: an update ends in Completed only after git merge master or git rebase
\* master ran in it and returned zero, whatever the update-method option holds.
C16_CompletedOnlyAfterUpdate ==
    RunsUpdate(last) /\ End(last.path) = "Completed" => UpdateApplied(last)
\* the process of the last command was in the work directory when it came to
\* complete_update
CompletedFromWorkDir(l) ==
    /\ End(l.path) = "Completed"
    /\ \/ RunsUpdate(l) /\ l.options.work_dir
       \/ l.cmd = "continue-update" /\ l.dir0 = "work"

\* the calls of the last command in directory d with operation op
Calls(l, d, op) == {i \in 1..Len(l.log) : l.log[i].dir = d /\ l.log[i].op = op}

\* C17: when an update that went through the work directory completes, by
\* update or by continue-update started in the work directory, the work
\* directory is on master, the process is in the primary directory, and the
\* primary directory is on the target branch: by a reset/clean and no checkout
\* when it was on that branch before, by a checkout of it and no reset/clean
\* otherwise.
C17_CompletionSynchronisesPrimary ==
    [][CompletedFromWorkDir(last')
           => /\ branch'["work"] = MASTER
              /\ cwd' = "primary"
              /\ branch'["primary"] = last'.name
              /\ IF branch["primary"] = last'.name
                 THEN /\ Calls(last', "primary", "reset") # {}
                      /\ Calls(last', "primary", "checkout") = {}
                 ELSE /\ Calls(last', "primary", "reset") = {}
                      /\ \E i \in Calls(last', "primary", "checkout") :
                             last'.log[i].arg = last'.name]_vars

\* a continue-update in the work directory completes the update of the branch
\* the primary directory is on
C17_Witness ==
    /\ last.cmd = "continue-update"
    /\ last.dir0 = "work"
    /\ last.sess0 = "Conflicted"
    /\ End(last.path) = "Completed"
    /\ Calls(last, "primary", "reset") # {}
    /\ branch["work"] = MASTER
    /\ cwd = "primary"
\* the operations of the calls of the last command, in their order
OpSeq(l) == [i \in 1..Len(l.log) |-> l.log[i].op]

IsPrefix(s, t) == Len(s) <= Len(t) /\ s = SubSeq(t, 1, Len(s))

\* the last command posts a comment when it closes: the comment given, or the
\* configured default when none is given, is not empty
PostsComment(l) ==
    LET text == IF l.comment = NoComment THEN l.options.close_default_comment ELSE l.comment
    IN  text # NoComment /\ text # ""

\* the call i of the last command was made and returned success
Succeeded(l, i) == i \in 1..Len(l.log) /\ l.firstFail # i

\* C18: after the lookup of the pull request, close makes its calls in the
\* order comment (only when the effective comment is not empty), close,
\* checkout master, delete branch, and stops at the first that fails; so the
\* checkout and the deletion come only after a close that succeeded, and when
\* one of them fails the remote pull request is closed already.
C18_CloseOrder ==
    last.cmd = "close" =>
        /\ IsPrefix(OpSeq(last),
                    <<"api-get">>
                    \o (IF PostsComment(last) THEN <<"api-comment">> ELSE <<>>)
                    \o <<"api-close", "checkout", "branch-D">>)
        /\ \A i \in 1..Len(last.log) :
               last.log[i].op \in {"checkout", "branch-D"}
                   => \E j \in 1..(i - 1) :
                          last.log[j].op = "api-close" /\ Succeeded(last, j)
        /\ FailedCall(last) \in {"checkout", "branch-D"} => remote = "closed"
        /\ "branch-D" \in Ops(last) => remote = "closed"

\* a close whose deletion of the branch fails after the comment and the close
C18_Witness ==
    /\ last.cmd = "close"
    /\ PostsComment(last)
    /\ FailedCall(last) = "branch-D"
    /\ remote = "closed"
    /\ last.br0 \in branches

\* C19: merge makes its calls in the order checkout master, merge of the
\* branch, delete branch, and then, only when merge-auto-close is set, comment
\* (when not empty) and close; it stops at the first that fails, and a merge
\* that fails leaves the branch and the remote pull request as they were.
C19_MergeOrder ==
    [][last'.cmd = "merge"
           => /\ IsPrefix(OpSeq(last'),
                          <<"checkout", "merge-branch", "branch-D">>
                          \o (IF last'.options.merge_auto_close
                              THEN (IF PostsComment(last') THEN <<"api-comment">> ELSE <<>>)
                                   \o <<"api-close">>
                              ELSE <<>>))
              /\ "api-close" \in Ops(last')
                     => /\ last'.options.merge_auto_close
                        /\ \A i \in 1..3 : Succeeded(last', i)
                        /\ last'.br0 \notin branches'
              /\ FailedCall(last') = "merge-branch"
                     => /\ Ops(last') \cap {"branch-D", "api-comment", "api-close"} = {}
                        /\ UNCHANGED <<branches, remote>>]_vars

\* a merge that fails with merge-auto-close set: the branch and the open pull
\* request are still there
C19_Witness ==
    /\ last.cmd = "merge"
    /\ last.options.merge_auto_close
    /\ FailedCall(last) = "merge-branch"
    /\ last.br0 \in branches
    /\ remote = "open"

\* C20: in an update, a reset/clean in the work directory comes first of the
\* git calls and is followed by the checkout of the target there, and a
\* reset/clean of the primary directory comes only in the completion, after
\* the checkout of master in the work directory; and with no work directory
\* configured no update and no continue-update runs a reset/clean.
C20_ResetOnlyInWorkDir ==
    /\ (RunsUpdate(last) \/ last.cmd = "continue-update")
            => /\ \A i \in Calls(last, "work", "reset") :
                      /\ \A j \in 1..(i - 1) : last.log[j].op \in {"api-get", "fetch"}
                      /\ i < Len(last.log)
                             => /\ last.log[i + 1].op = "checkout"
                                /\ last.log[i + 1].dir = "work"
                                /\ last.log[i + 1].arg = last.name
               /\ \A i \in Calls(last, "primary", "reset") :
                      \E j \in 1..(i - 1) : /\ last.log[j].op = "checkout"
                                             /\ last.log[j].dir = "work"
                                             /\ last.log[j].arg = MASTER
    /\ ((RunsUpdate(last) \/ last.cmd = "continue-update") /\ ~last.options.work_dir
            => "reset" \notin Ops(last))
\* C21: when update_branch ends in Conflicted with a work directory
\* configured, the breadcrumb holds the work directory and the process is in
\* it; with none configured, the breadcrumb is not written and the process is
\* in the directory it started in.
C21_BreadcrumbOnConflict ==
    [][RunsUpdate(last') /\ End(last'.path) = "Conflicted"
           => /\ last'.err = "ConflictError"
              /\ IF last'.options.work_dir
                 THEN /\ breadcrumb' = "work"
                      /\ last'.wrote
                      /\ cwd' = "work"
                 ELSE /\ breadcrumb' = breadcrumb
                      /\ ~last'.wrote
                      /\ ~last'.switched
                      /\ cwd' = last'.dir0]_vars

\* an update started in the primary directory ends Conflicted in the work
\* directory
C21_Witness ==
    /\ last.cmd = "update"
    /\ last.dir0 = "primary"
    /\ last.options.work_dir
    /\ End(last.path) = "Conflicted"
    /\ breadcrumb = "work"
    /\ cwd = "work"
\* the last command is a fetch that got the pull request and fetched its branch
Fetched(l) ==
    /\ l.cmd = "fetch"
    /\ Len(l.log) >= 2
    /\ l.log[2].op = "fetch"
    /\ Succeeded(l, 1)
    /\ Succeeded(l, 2)

\* C22: after the branch is fetched, fetch calls update_branch on it exactly
\* when auto_update is true, whatever fetch-auto-checkout holds; with
\* auto_update false it makes one more call, the checkout of the fetched
\* branch, exactly when fetch-auto-checkout is set; with both false it makes no
\* further call and leaves the checked-out branches and the process's
\* directory as they were.
C22_FetchThenUpdateOrCheckout ==
    [][Fetched(last')
           => /\ last'.flag <=> last'.name = PR_BRANCH
              /\ last'.flag <=> (Len(last'.path) > 1 \/ last'.err = "InWorkDirectoryError")
              /\ ~last'.flag /\ last'.options.fetch_auto_checkout
                     => /\ Len(last'.log) = 3
                        /\ last'.log[3].op = "checkout"
                        /\ last'.log[3].arg = PR_BRANCH
                        /\ last'.log[3].dir = last'.dir0
                        /\ Succeeded(last', 3) => branch'[last'.dir0] = PR_BRANCH
              /\ ~last'.flag /\ ~last'.options.fetch_auto_checkout
                     => /\ Len(last'.log) = 2
                        /\ last'.err = "none"
                        /\ branch' = branch
                        /\ cwd' = last'.dir0
                        /\ ~last'.switched]_vars

\* a fetch without update and without checkout, started on another branch
C22_Witness ==
    /\ Fetched(last)
    /\ ~last.flag
    /\ ~last.options.fetch_auto_checkout
    /\ last.br0 = DEV
    /\ branch[last.dir0] = DEV
    /\ PR_BRANCH \in branches
\* t is written with decimal digits only
IsNumber(t) == Len(t) > 0 /\ \A i \in 1..Len(t) : t[i] \in Digit

\* C23: update without target works on the current branch, and raises
\* InvalidBranchError before any call and any directory switch when that
\* branch lacks the prefix; update with a number asks the hosting service and
\* works on no other branch than the one build_branch_name gives for the pull
\* request; update with any other target works on the branch of that name and
\* asks nothing.
C23_UpdateTarget ==
    last.cmd = "update" =>
        /\ last.target = NONE /\ ~StartsWith(last.br0, PR_PREFIX)
               => /\ last.err = "InvalidBranchError"
                  /\ last.log = <<>>
                  /\ ~last.switched
        /\ last.target = NONE /\ StartsWith(last.br0, PR_PREFIX) => last.name = last.br0
        /\ IsNumber(last.target)
               => /\ last.log # <<>>
                  /\ last.log[1].op = "api-get"
                  /\ last.name \in {NONE, build_branch_name(ThePullRequest)}
        /\ last.target # NONE /\ ~IsNumber(last.target)
               => /\ last.name = last.target
                  /\ "api-get" \notin Ops(last)
====
